---- MODULE Spec2Model ----
(***************************************************************************)
(* Model of the Heru IoT firmware (src/IoT Firmware/src/main.cpp and       *)
(* config.h): setup() with its blocking WiFi association wait, and loop()  *)
(* with the broker reconnect loop, the transport pump, the DHT sensor      *)
(* read, the validation, the JSON payload and the publish.                 *)
(*                                                                         *)
(* The program is one thread; pc is its position.  The network link, the   *)
(* broker session and the sensor are the environment: the link and the     *)
(* session may drop between any two program steps.                         *)
(***************************************************************************)
EXTENDS Integers, Sequences, FiniteSets, TLC

VARIABLES
    pc,             \* position of the single thread of control
    wifiUp,         \* WiFi.status() == WL_CONNECTED
    begun,          \* WiFi.begin() has been called
    brokerUp,       \* client.connected()
    lastConnected,  \* value returned by the latest client.connected() call of this cycle
    h,              \* float h of loop()
    t,              \* float t of loop()
    payload,        \* String payload of loop()
    lastPub,        \* the latest client.publish() call of this cycle
    cnt,            \* calls made in this cycle, per operation (saturating)
    delays,         \* delay() calls made in this cycle, per duration (saturating)
    linkUps,        \* number of times the wait of setup_wifi() has ended (link seen up)
    pubPending      \* a publish call has been made and no 30 s delay has followed yet

vars == <<pc, wifiUp, begun, brokerUp, lastConnected, h, t, payload, lastPub,
          cnt, delays, linkUps, pubPending>>

----------------------------------------------------------------------------
(* Bounds of the model *)

\* Call counters saturate at Cap: a counter below Cap is exact.
Cap == 5

----------------------------------------------------------------------------
(* config.h *)

DEVICE_ID == "esp32_sensor_01"
MQTT_TOPIC == "heru/sensors/esp32_sensor_01"

(* delay() arguments of main.cpp *)
SETTLE_MS == 10
POLL_MS == 500
BACKOFF_MS == 5000
COOLDOWN_MS == 2000
CADENCE_MS == 30000

DelayMs == {SETTLE_MS, POLL_MS, BACKOFF_MS, COOLDOWN_MS, CADENCE_MS}

\* "connectNoLink" counts the client.connect() calls made while the link is down.
Ops == {"connected", "connect", "connectFail", "connectOk", "connectNoLink", "pump",
        "readHumidity", "readTemperature", "publish"}

----------------------------------------------------------------------------
(* Sensor values.  A DHT22 reports tenths of a unit; a float is modelled   *)
(* as NaN or as a whole number of tenths.                                  *)

NaN == [nan |-> TRUE, tenths |-> 0]
Num(x) == [nan |-> FALSE, tenths |-> x]

isnan(f) == f.nan

Temperatures == {Num(235), Num(-5), Num(-105), NaN}
Humidities == {Num(602), Num(0), Num(1000), NaN}

----------------------------------------------------------------------------
(* String(float): two decimal places, as the Arduino String constructor    *)
(* prints a float by default.                                              *)

Digit(d) == SubSeq("0123456789", d + 1, d + 1)

RECURSIVE UIntToString(_)
UIntToString(n) == IF n < 10 THEN Digit(n)
                   ELSE UIntToString(n \div 10) \o Digit(n % 10)

Abs(x) == IF x < 0 THEN -x ELSE x

FloatToString(f) ==
    LET a == Abs(f.tenths) IN
    (IF f.tenths < 0 THEN "-" ELSE "")
        \o UIntToString(a \div 10) \o "." \o Digit(a % 10) \o "0"

----------------------------------------------------------------------------
(* The payload of loop(), built by the four appends of lines 69-73. *)

\* mutant: the humidity member appended before the temperature member
BuildPayload_Swapped(id, tv, hv) ==
    LET p0 == "{"
        p1 == p0 \o ("\"device_id\": \"" \o id \o "\",")
        p2 == p1 \o ("\"humidity\": " \o FloatToString(hv) \o ",")
        p3 == p2 \o ("\"temperature\": " \o FloatToString(tv))
    IN  p3 \o "}"

BuildPayload(id, tv, hv) ==
    LET p0 == "{"
        p1 == p0 \o ("\"device_id\": \"" \o id \o "\",")
        p2 == p1 \o ("\"temperature\": " \o FloatToString(tv) \o ",")
        p3 == p2 \o ("\"humidity\": " \o FloatToString(hv))
    IN  p3 \o "}"

----------------------------------------------------------------------------
(* Bookkeeping of calls *)

Min(a, b) == IF a < b THEN a ELSE b

Bump(f, k) == [f EXCEPT ![k] = Min(@ + 1, Cap)]

NoCalls == [o \in Ops |-> 0]
NoDelays == [d \in DelayMs |-> 0]
NoPub == [called |-> FALSE, topic |-> "", payload |-> "", connected |-> FALSE,
          observed |-> FALSE, ok |-> FALSE, h |-> NaN, t |-> NaN]

Init ==
    /\ pc = "setup"
    /\ wifiUp = FALSE
    /\ begun = FALSE
    /\ brokerUp = FALSE
    /\ lastConnected = FALSE
    /\ h = NaN
    /\ t = NaN
    /\ payload = ""
    /\ lastPub = NoPub
    /\ cnt = NoCalls
    /\ delays = NoDelays
    /\ linkUps = 0
    /\ pubPending = FALSE

----------------------------------------------------------------------------
(* Control flow of the branches and loops *)

\* mutant: setup() does not call setup_wifi()
SetupNext_SkipWifi == "set_server"

\* setup(): Serial.begin, dht.begin, then setup_wifi()
SetupNext == "wifi_begin"

\* mutant: the test of the wait inverted (== in place of !=)
WifiStatusNext_Inverted(status) == IF status THEN "wifi_delay" ELSE "set_server"

\* mutant: the wait ends whatever the status is
WifiStatusNext_NoWait(status) == "set_server"

\* setup_wifi(): while (WiFi.status() != WL_CONNECTED) { delay(500); }
WifiStatusNext(status) == IF status THEN "set_server" ELSE "wifi_delay"

\* mutant: the test of loop() inverted, reconnect() called when connected
LoopCheckNext_Inverted(connected) == IF connected THEN "reconnect_while" ELSE "pump"

\* mutant: client.loop() is called only on the way out of reconnect()
LoopCheckNext_SkipPump(connected) == IF connected THEN "read_h" ELSE "reconnect_while"

\* mutant: loop() never calls reconnect()
LoopCheckNext_NoReconnect(connected) == "pump"

\* loop(): if (!client.connected()) { reconnect(); }  client.loop();
LoopCheckNext(connected) == IF connected THEN "pump" ELSE "reconnect_while"

\* mutant: the loop test of reconnect() is not consulted, a handshake is always made
ReconnectWhileNext_Always(connected) == "connect"

\* mutant: reconnect() returns after its first test, connected or not
ReconnectWhileNext_GiveUp(connected) == "pump"

\* reconnect(): while (!client.connected()) { ... }
ReconnectWhileNext(connected) == IF connected THEN "pump" ELSE "connect"

\* mutant: a failed handshake stops the program
ConnectNext_Abort(ok) == IF ok THEN "reconnect_while" ELSE "halt"

\* mutant: no wait after a failed handshake
ConnectNext_NoBackoff(ok) == "reconnect_while"

\* reconnect(): if (client.connect(...)) { } else { ...; delay(5000); }
ConnectNext(ok) == IF ok THEN "reconnect_while" ELSE "backoff"

\* mutant: && in place of ||
Invalid_Both(hv, tv) == isnan(hv) /\ isnan(tv)

\* loop(): if (isnan(h) || isnan(t))
Invalid(hv, tv) == isnan(hv) \/ isnan(tv)

\* loop(): if (invalid) { ...; delay(2000); return; }  else the payload is built
ValidateNext(invalid) == IF invalid THEN "cooldown" ELSE "serialize"

\* mutant: the sensor is read again in the same cycle
CooldownNext_Retry == "read_h"

\* loop(): delay(2000); return;
CooldownNext == "loop_return"

\* mutant: a refused publish is repeated
PublishNext_RetryOnFailure(ok) == IF ok THEN "cadence" ELSE "publish"

\* mutant: the cycle returns at once when publish is refused
PublishNext_SkipOnFailure(ok) == IF ok THEN "cadence" ELSE "loop_return"

\* loop(): client.publish(...); delay(30000);  (the result of publish is not read)
PublishNext(ok) == "cadence"

----------------------------------------------------------------------------
(* setup() *)

\* Serial.begin(115200); dht.begin(); call of setup_wifi()
Setup ==
    /\ pc = "setup"
    /\ pc' = SetupNext
    /\ UNCHANGED <<wifiUp, begun, brokerUp, lastConnected, h, t, payload, lastPub,
                   cnt, delays, linkUps, pubPending>>

\* setup_wifi(): delay(10); ...; WiFi.begin(WIFI_SSID, WIFI_PASSWORD);
WifiBegin ==
    /\ pc = "wifi_begin"
    /\ begun' = TRUE
    /\ delays' = Bump(delays, SETTLE_MS)
    /\ pc' = "wifi_status"
    /\ UNCHANGED <<wifiUp, brokerUp, lastConnected, h, t, payload, lastPub,
                   cnt, linkUps, pubPending>>

\* setup_wifi(): the test of the while loop; leaving the loop is the program's
\* transition to "link up".
WifiStatus ==
    /\ pc = "wifi_status"
    /\ pc' = WifiStatusNext(wifiUp)
    /\ linkUps' = IF pc' = "set_server" THEN Min(linkUps + 1, Cap) ELSE linkUps
    /\ UNCHANGED <<wifiUp, begun, brokerUp, lastConnected, h, t, payload, lastPub,
                   cnt, delays, pubPending>>

\* setup_wifi(): delay(500); Serial.print(".");
WifiDelay ==
    /\ pc = "wifi_delay"
    /\ delays' = Bump(delays, POLL_MS)
    /\ pc' = "wifi_status"
    /\ UNCHANGED <<wifiUp, begun, brokerUp, lastConnected, h, t, payload, lastPub,
                   cnt, linkUps, pubPending>>

\* setup_wifi() returns; client.setServer(MQTT_SERVER, MQTT_PORT); setup() returns
\* and loop() is entered for the first time.
SetServer ==
    /\ pc = "set_server"
    /\ pc' = "loop_connected"
    /\ UNCHANGED <<wifiUp, begun, brokerUp, lastConnected, h, t, payload, lastPub,
                   cnt, delays, linkUps, pubPending>>

----------------------------------------------------------------------------
(* loop() and reconnect() *)

\* loop(): if (!client.connected())
LoopCheck ==
    /\ pc = "loop_connected"
    /\ lastConnected' = brokerUp
    /\ cnt' = Bump(cnt, "connected")
    /\ pc' = LoopCheckNext(brokerUp)
    /\ UNCHANGED <<wifiUp, begun, brokerUp, h, t, payload, lastPub,
                   delays, linkUps, pubPending>>

\* reconnect(): while (!client.connected())
ReconnectWhile ==
    /\ pc = "reconnect_while"
    /\ lastConnected' = brokerUp
    /\ cnt' = Bump(cnt, "connected")
    /\ pc' = ReconnectWhileNext(brokerUp)
    /\ UNCHANGED <<wifiUp, begun, brokerUp, h, t, payload, lastPub,
                   delays, linkUps, pubPending>>

\* reconnect(): client.connect(DEVICE_ID, MQTT_USER, MQTT_PASSWORD).  The
\* handshake can succeed only over an associated link; it may fail at any time.
Connect ==
    /\ pc = "connect"
    /\ \E ok \in BOOLEAN :
        /\ ok => wifiUp
        /\ brokerUp' = ok
        /\ cnt' = LET c1 == Bump(cnt, "connect")
                       c2 == Bump(c1, IF ok THEN "connectOk" ELSE "connectFail")
                   IN  IF wifiUp THEN c2 ELSE Bump(c2, "connectNoLink")
        /\ pc' = ConnectNext(ok)
    /\ UNCHANGED <<wifiUp, begun, lastConnected, h, t, payload, lastPub,
                   delays, linkUps, pubPending>>

\* reconnect(): delay(5000);
Backoff ==
    /\ pc = "backoff"
    /\ delays' = Bump(delays, BACKOFF_MS)
    /\ pc' = "reconnect_while"
    /\ UNCHANGED <<wifiUp, begun, brokerUp, lastConnected, h, t, payload, lastPub,
                   cnt, linkUps, pubPending>>

\* loop(): client.loop();
Pump ==
    /\ pc = "pump"
    /\ cnt' = Bump(cnt, "pump")
    /\ pc' = "read_h"
    /\ UNCHANGED <<wifiUp, begun, brokerUp, lastConnected, h, t, payload, lastPub,
                   delays, linkUps, pubPending>>

\* loop(): float h = dht.readHumidity();
ReadHumidity ==
    /\ pc = "read_h"
    /\ \E v \in Humidities : h' = v
    /\ cnt' = Bump(cnt, "readHumidity")
    /\ pc' = "read_t"
    /\ UNCHANGED <<wifiUp, begun, brokerUp, lastConnected, t, payload, lastPub,
                   delays, linkUps, pubPending>>

\* loop(): float t = dht.readTemperature();
ReadTemperature ==
    /\ pc = "read_t"
    /\ \E v \in Temperatures : t' = v
    /\ cnt' = Bump(cnt, "readTemperature")
    /\ pc' = "validate"
    /\ UNCHANGED <<wifiUp, begun, brokerUp, lastConnected, h, payload, lastPub,
                   delays, linkUps, pubPending>>

\* loop(): if (isnan(h) || isnan(t))
Validate ==
    /\ pc = "validate"
    /\ pc' = ValidateNext(Invalid(h, t))
    /\ UNCHANGED <<wifiUp, begun, brokerUp, lastConnected, h, t, payload, lastPub,
                   cnt, delays, linkUps, pubPending>>

\* loop(): Serial.println(F("Failed to read from DHT sensor!")); delay(2000); return;
Cooldown ==
    /\ pc = "cooldown"
    /\ delays' = Bump(delays, COOLDOWN_MS)
    /\ pc' = CooldownNext
    /\ UNCHANGED <<wifiUp, begun, brokerUp, lastConnected, h, t, payload, lastPub,
                   cnt, linkUps, pubPending>>

\* loop(): String payload = "{"; payload += ...; payload += "}";
Serialize ==
    /\ pc = "serialize"
    /\ payload' = BuildPayload(DEVICE_ID, t, h)
    /\ pc' = "publish"
    /\ UNCHANGED <<wifiUp, begun, brokerUp, lastConnected, h, t, lastPub,
                   cnt, delays, linkUps, pubPending>>

\* loop(): client.publish(MQTT_TOPIC, payload.c_str());  The transport accepts
\* the message only over a connected session, and may refuse it even then.
Publish ==
    /\ pc = "publish"
    /\ \E ok \in BOOLEAN :
        /\ ok => brokerUp
        /\ lastPub' = [called |-> TRUE, topic |-> MQTT_TOPIC, payload |-> payload,
                       connected |-> brokerUp, observed |-> lastConnected,
                       ok |-> ok, h |-> h, t |-> t]
        /\ pc' = PublishNext(ok)
    /\ cnt' = Bump(cnt, "publish")
    /\ pubPending' = TRUE
    /\ UNCHANGED <<wifiUp, begun, brokerUp, lastConnected, h, t, payload,
                   delays, linkUps>>

\* loop(): delay(30000);
Cadence ==
    /\ pc = "cadence"
    /\ delays' = Bump(delays, CADENCE_MS)
    /\ pubPending' = FALSE
    /\ pc' = "loop_return"
    /\ UNCHANGED <<wifiUp, begun, brokerUp, lastConnected, h, t, payload, lastPub,
                   cnt, linkUps>>

\* loop() returns and is called again: its locals are gone and a new cycle starts.
LoopReturn ==
    /\ pc = "loop_return"
    /\ pc' = "loop_connected"
    /\ lastConnected' = FALSE
    /\ h' = NaN
    /\ t' = NaN
    /\ payload' = ""
    /\ lastPub' = NoPub
    /\ cnt' = NoCalls
    /\ delays' = NoDelays
    /\ UNCHANGED <<wifiUp, begun, brokerUp, linkUps, pubPending>>

----------------------------------------------------------------------------
(* The environment *)

\* The network stack associates, once WiFi.begin() has been called.
WifiAssociate ==
    /\ begun
    /\ ~wifiUp
    /\ wifiUp' = TRUE
    /\ UNCHANGED <<pc, begun, brokerUp, lastConnected, h, t, payload, lastPub,
                   cnt, delays, linkUps, pubPending>>

\* The network link drops; the broker session may be seen lost at once or later.
WifiDrop ==
    /\ wifiUp
    /\ wifiUp' = FALSE
    /\ \E lost \in BOOLEAN : brokerUp' = (brokerUp /\ ~lost)
    /\ UNCHANGED <<pc, begun, lastConnected, h, t, payload, lastPub,
                   cnt, delays, linkUps, pubPending>>

\* The broker session is lost (keep-alive timeout, broker restart, dead socket).
SessionLoss ==
    /\ brokerUp
    /\ brokerUp' = FALSE
    /\ UNCHANGED <<pc, wifiUp, begun, lastConnected, h, t, payload, lastPub,
                   cnt, delays, linkUps, pubPending>>

Program ==
    \/ Setup \/ WifiBegin \/ WifiStatus \/ WifiDelay \/ SetServer
    \/ LoopCheck \/ ReconnectWhile \/ Connect \/ Backoff \/ Pump
    \/ ReadHumidity \/ ReadTemperature \/ Validate \/ Cooldown
    \/ Serialize \/ Publish \/ Cadence \/ LoopReturn

Environment == WifiAssociate \/ WifiDrop \/ SessionLoss

Next == Program \/ Environment

Spec == Init /\ [][Next]_vars

\* A handshake that succeeds.
ConnectOk == Connect /\ brokerUp'

\* Progress: the thread of control always goes on (every delay() ends, every
\* call returns), and a handshake that is possible again and again succeeds at
\* some time.
\* For the progress properties the sensor's values are cut down to one number
\* and not-a-number per field, which is all that the control flow tells apart.
LiveNext == Next /\ h' \in {NaN, Num(602)} /\ t' \in {NaN, Num(235)}

LiveSpec == Init /\ [][LiveNext]_vars /\ WF_vars(Program) /\ SF_vars(ConnectOk)

----------------------------------------------------------------------------
(* The session state of the Link Manager, read off the link and the session *)

SessionState ==
    IF brokerUp THEN "BrokerConnected"
    ELSE IF wifiUp THEN "LinkUp"
    ELSE "Disconnected"

TypeOK ==
    /\ pc \in {"setup", "wifi_begin", "wifi_status", "wifi_delay", "set_server",
               "loop_connected", "reconnect_while", "connect", "backoff", "pump",
               "read_h", "read_t", "validate", "cooldown", "serialize", "publish",
               "cadence", "loop_return"}
    /\ wifiUp \in BOOLEAN /\ begun \in BOOLEAN /\ brokerUp \in BOOLEAN
    /\ lastConnected \in BOOLEAN /\ pubPending \in BOOLEAN
    /\ h \in Humidities /\ t \in Temperatures
    /\ cnt \in [Ops -> 0..Cap] /\ delays \in [DelayMs -> 0..Cap]
    /\ linkUps \in 0..Cap

----------------------------------------------------------------------------
(* Positions *)

SetupPcs == {"setup", "wifi_begin", "wifi_status", "wifi_delay", "set_server"}
CheckPcs == {"loop_connected", "reconnect_while"}
ReconnectPcs == {"reconnect_while", "connect", "backoff"}
SamplePcs == {"pump", "read_h", "read_t", "validate", "cooldown", "serialize",
              "publish", "cadence", "loop_return"}

\* A step of the program (the environment never moves pc).
ProgramStep == pc' # pc

----------------------------------------------------------------------------
(* Reading a payload back: its members, their keys and their values *)

Char(s, i) == SubSeq(s, i, i)

\* the least index >= i of character c in s, or 0
RECURSIVE Find(_, _, _)
Find(s, c, i) == IF i > Len(s) THEN 0
                 ELSE IF Char(s, i) = c THEN i
                 ELSE Find(s, c, i + 1)

\* the pieces of s between the occurrences of character c
RECURSIVE Split(_, _)
Split(s, c) ==
    LET i == Find(s, c, 1) IN
    IF i = 0 THEN <<s>>
    ELSE <<SubSeq(s, 1, i - 1)>> \o Split(SubSeq(s, i + 1, Len(s)), c)

\* the members of the object text p: the text between its braces, cut at the commas
Members(p) == Split(SubSeq(p, 2, Len(p) - 1), ",")

\* the key of member m: the text between its first two quotes
Key(m) == LET q == Find(m, "\"", 2) IN SubSeq(m, 2, q - 1)

\* the value of member m: the text after its first colon
Value(m) == LET c == Find(m, ":", 1) IN SubSeq(m, c + 1, Len(m))

WellFormed(p) ==
    /\ Len(p) >= 2
    /\ Char(p, 1) = "{"
    /\ Char(p, Len(p)) = "}"
    /\ \A i \in 1..Len(Members(p)) :
          LET m == Members(p)[i] IN
          /\ Char(m, 1) = "\""
          /\ Find(m, "\"", 2) > 0
          /\ Find(m, ":", 1) = Find(m, "\"", 2) + 1

----------------------------------------------------------------------------
(* C1 *)

\* C1 as stated: every publish call is made while the broker session is
\* connected at the moment of the call.
C1_PublishWhileConnected == lastPub.called => lastPub.connected

\* C1, amended: a publish call is made only in a cycle whose latest
\* client.connected() check (the one at the start of loop(), or the loop test of
\* reconnect()) returned true; the session may have been lost since.
C1_PublishAfterReadyCheck ==
    /\ pc = "publish" => lastConnected
    /\ lastPub.called => lastPub.observed

\* a publish call made on a session that was lost after the check
C1_Witness == lastPub.called /\ lastPub.observed /\ ~lastPub.connected

----------------------------------------------------------------------------
(* C2 *)

\* C2: when the humidity or the temperature read in a cycle is not-a-number
\* the cycle makes no publish call; what is handed to publish was built from
\* two numbers.
C2_NoPublishOfNaN ==
    /\ lastPub.called => (~lastPub.h.nan /\ ~lastPub.t.nan)
    /\ pc \in {"serialize", "publish", "cadence"} => (~h.nan /\ ~t.nan)
    /\ (cnt["readTemperature"] > 0 /\ pc # "validate" /\ (h.nan \/ t.nan)) =>
          /\ cnt["publish"] = 0
          /\ ~lastPub.called
          /\ payload = ""
          /\ pc \in {"cooldown", "loop_return"}

\* a cycle that ended with only the humidity not-a-number
C2_Witness == pc = "loop_return" /\ h.nan /\ ~t.nan /\ cnt["publish"] = 0

----------------------------------------------------------------------------
(* C3 *)

\* C3 as stated: a handshake attempt is made only while the network link is
\* associated.
C3_ConnectOnlyWhileLinkUp == cnt["connectNoLink"] = 0

\* C3, amended: a handshake attempt is made only after the association wait of
\* setup_wifi() has ended (once, at startup) and only right after a
\* client.connected() check returned false; the link is not consulted again, so
\* an attempt may be made while the link is down.
C3_ConnectAfterFirstAssociation ==
    /\ (pc = "connect" \/ cnt["connect"] > 0) => linkUps = 1
    /\ pc = "connect" => (~lastConnected /\ ~brokerUp)
    /\ pc \in SetupPcs => (cnt["connect"] = 0 /\ ~brokerUp)

\* a handshake attempted, and failed, while the link was down
C3_Witness == cnt["connectNoLink"] > 0 /\ cnt["connectFail"] > 0 /\ linkUps = 1

----------------------------------------------------------------------------
(* C4 *)

\* C4: a session check (at the start of loop() or the loop test of
\* reconnect()) that runs while the session is connected leads to no handshake
\* attempt and no backoff wait and leaves the session state as it is; a cycle
\* whose first check found the session connected makes none at all.
C4_Step ==
    /\ (ProgramStep /\ pc \in CheckPcs /\ brokerUp) =>
          /\ pc' \notin {"connect", "backoff"}
          /\ cnt'["connect"] = cnt["connect"]
          /\ delays'[BACKOFF_MS] = delays[BACKOFF_MS]
          /\ brokerUp' = brokerUp
          /\ wifiUp' = wifiUp
    /\ (cnt["connected"] = 1 /\ pc # "reconnect_while") =>
          (cnt["connect"] = 0 /\ delays[BACKOFF_MS] = 0)

\* C4: every step of every behaviour satisfies C4_Step.
C4_Idempotent == [][C4_Step]_vars

\* a cycle past its check, which found the session connected
C4_Witness ==
    pc = "read_h" /\ cnt["connected"] = 1 /\ lastConnected /\ cnt["connect"] = 0

----------------------------------------------------------------------------
(* C5 *)

\* C5: in reconnect(), every failed handshake leaves the session state as it
\* was (not BrokerConnected) and is followed by one 5 s wait; a successful one
\* makes the session BrokerConnected and is followed by none: after k failures
\* and the first success there have been k+1 attempts and k waits.  The loop
\* is left only when the session is seen connected, whatever the number of
\* failures.
C5_Step ==
    /\ cnt["connect"] < Cap =>
          cnt["connect"] = cnt["connectFail"] + cnt["connectOk"]
    /\ cnt["connectFail"] < Cap =>
          delays[BACKOFF_MS] = cnt["connectFail"] - (IF pc = "backoff" THEN 1 ELSE 0)
    /\ pc = "backoff" => (cnt["connectFail"] > 0 /\ ~brokerUp)
    /\ (ProgramStep /\ pc = "connect" /\ ~brokerUp') =>
          /\ pc' = "backoff"
          /\ cnt'["connectFail"] = Min(cnt["connectFail"] + 1, Cap)
          /\ cnt'["connectOk"] = cnt["connectOk"]
          /\ wifiUp' = wifiUp /\ brokerUp' = brokerUp
    /\ (ProgramStep /\ pc = "connect" /\ brokerUp') =>
          /\ pc' = "reconnect_while"
          /\ cnt'["connectOk"] = Min(cnt["connectOk"] + 1, Cap)
          /\ cnt'["connectFail"] = cnt["connectFail"]
          /\ delays' = delays
          /\ (cnt["connectOk"] = 0 /\ cnt["connectFail"] < Cap - 1) =>
                cnt'["connect"] = cnt["connectFail"] + 1
    /\ (ProgramStep /\ pc = "backoff") =>
          /\ pc' = "reconnect_while"
          /\ delays'[BACKOFF_MS] = Min(delays[BACKOFF_MS] + 1, Cap)
          /\ \A d \in DelayMs \ {BACKOFF_MS} : delays'[d] = delays[d]
    /\ (ProgramStep /\ pc \in ReconnectPcs /\ pc' \notin ReconnectPcs) =>
          (brokerUp /\ pc = "reconnect_while" /\ pc' = "pump")
    /\ (ProgramStep /\ pc = "reconnect_while" /\ ~brokerUp) => pc' = "connect"

\* C5: every step of every behaviour satisfies C5_Step.
C5_RetryUntilConnected == [][C5_Step]_vars

\* three failures, then the fourth attempt succeeded
C5_Witness ==
    /\ pc = "reconnect_while" /\ brokerUp
    /\ cnt["connectFail"] = 3 /\ cnt["connectOk"] = 1 /\ cnt["connect"] = 4
    /\ delays[BACKOFF_MS] = 3

----------------------------------------------------------------------------
(* C6 *)

\* C6: the wait of setup_wifi() polls the link status, one 500 ms delay per
\* poll that finds the link down, for any number of polls; it ends only on a
\* poll that finds the link up, and it ends once: the program passes from
\* "no link" to "link up" exactly once.
C6_Step ==
    /\ linkUps <= 1
    /\ pc \in {"setup", "wifi_begin", "wifi_status", "wifi_delay"} => linkUps = 0
    /\ pc \notin {"setup", "wifi_begin", "wifi_status", "wifi_delay"} => linkUps = 1
    /\ (ProgramStep /\ pc = "wifi_status" /\ ~wifiUp) =>
          (pc' = "wifi_delay" /\ linkUps' = 0 /\ delays' = delays)
    /\ (ProgramStep /\ pc = "wifi_status" /\ wifiUp) =>
          (pc' = "set_server" /\ linkUps' = 1 /\ delays' = delays)
    /\ (ProgramStep /\ pc = "wifi_delay") =>
          /\ pc' = "wifi_status"
          /\ delays'[POLL_MS] = Min(delays[POLL_MS] + 1, Cap)
          /\ \A d \in DelayMs \ {POLL_MS} : delays'[d] = delays[d]
    /\ (ProgramStep /\ pc' = "set_server") => (pc = "wifi_status" /\ wifiUp)
    /\ (ProgramStep /\ pc \notin SetupPcs) => pc' \notin SetupPcs

\* C6: every step of every behaviour satisfies C6_Step.
C6_WaitForLinkOnce == [][C6_Step]_vars

\* the wait ended after three polls that found the link down
C6_Witness == pc = "set_server" /\ linkUps = 1 /\ delays[POLL_MS] = 3

----------------------------------------------------------------------------
(* C7 *)

\* C7: in every cycle the sensor is read, the payload built and publish
\* called only after a session check of that cycle returned true: the first
\* check, or a later one after a successful handshake.  While the cycle is
\* still checking or retrying, it has pumped, read and published nothing.
C7_SessionCheckFirst ==
    /\ pc \in SamplePcs => (lastConnected /\ cnt["connected"] >= 1)
    /\ lastConnected => (cnt["connected"] = 1 \/ cnt["connectOk"] >= 1)
    /\ (pc \in CheckPcs \/ pc \in ReconnectPcs) =>
          /\ cnt["pump"] = 0
          /\ cnt["readHumidity"] = 0 /\ cnt["readTemperature"] = 0
          /\ cnt["publish"] = 0 /\ ~lastPub.called
          /\ payload = ""
          /\ delays[COOLDOWN_MS] = 0 /\ delays[CADENCE_MS] = 0
    /\ (cnt["pump"] > 0 \/ cnt["readHumidity"] > 0 \/ cnt["readTemperature"] > 0
            \/ cnt["publish"] > 0 \/ payload # "") => lastConnected

\* the sensor about to be read in a cycle that had to retry the handshake
C7_Witness ==
    pc = "read_h" /\ cnt["connectFail"] = 2 /\ cnt["connectOk"] = 1 /\ lastConnected

----------------------------------------------------------------------------
(* C8 *)

\* C8: a cycle whose reading is invalid waits 2 s once and returns: no
\* publish call, no 30 s wait, and the humidity and the temperature each read
\* exactly once; no cycle reads either twice, and a read is preceded by the
\* session check of its own cycle.
C8_InvalidReadingEndsCycle ==
    /\ cnt["readHumidity"] <= 1 /\ cnt["readTemperature"] <= 1
    /\ pc = "read_h" =>
          /\ cnt["readHumidity"] = 0 /\ cnt["readTemperature"] = 0
          /\ cnt["connected"] >= 1
          /\ delays[COOLDOWN_MS] = 0
    /\ pc = "cooldown" =>
          /\ (h.nan \/ t.nan)
          /\ delays[COOLDOWN_MS] = 0
    /\ (pc = "loop_return" /\ (h.nan \/ t.nan)) =>
          /\ delays[COOLDOWN_MS] = 1
          /\ delays[CADENCE_MS] = 0
          /\ cnt["publish"] = 0 /\ ~lastPub.called
          /\ cnt["readHumidity"] = 1 /\ cnt["readTemperature"] = 1
    /\ (pc = "loop_return" /\ ~(h.nan \/ t.nan)) => delays[COOLDOWN_MS] = 0

\* the end of a cycle in which the humidity was not-a-number and the
\* temperature a number
C8_Witness ==
    /\ pc = "loop_return" /\ h.nan /\ ~t.nan
    /\ delays[COOLDOWN_MS] = 1 /\ cnt["readHumidity"] = 1

----------------------------------------------------------------------------
(* C9 *)

\* C9: a publish call, accepted by the transport or not, is followed by the
\* 30 s wait before the cycle ends, so no publish call is made while the wait
\* after the previous one is still due.
C9_CadenceAfterPublish ==
    /\ pubPending <=> pc = "cadence"
    /\ pc = "publish" => (~pubPending /\ cnt["publish"] = 0)
    /\ lastPub.called => pc \in {"cadence", "loop_return"}
    /\ (pc = "loop_return" /\ lastPub.called) => delays[CADENCE_MS] = 1
    /\ (pc = "cadence") => (lastPub.called /\ delays[CADENCE_MS] = 0)
    /\ cnt["publish"] <= 1

\* the end of a cycle whose publish call was refused
C9_Witness ==
    pc = "loop_return" /\ lastPub.called /\ ~lastPub.ok /\ delays[CADENCE_MS] = 1

----------------------------------------------------------------------------
(* C10 *)

\* C10: the payload handed to publish, on the configured topic, is an object of
\* exactly three members, device_id, temperature and humidity in this order,
\* laid out as {"device_id": "<id>","temperature": <t>,"humidity": <h>} with
\* the numbers printed with two decimals.
C10_WireFormat ==
    lastPub.called =>
        LET p == lastPub.payload
            m == Members(p)
        IN  /\ lastPub.topic = "heru/sensors/esp32_sensor_01"
            /\ ~lastPub.h.nan /\ ~lastPub.t.nan
            /\ WellFormed(p)
            /\ Len(m) = 3
            /\ <<Key(m[1]), Key(m[2]), Key(m[3])>>
                  = <<"device_id", "temperature", "humidity">>
            /\ Value(m[1]) = " \"esp32_sensor_01\""
            /\ Value(m[2]) = " " \o FloatToString(lastPub.t)
            /\ Value(m[3]) = " " \o FloatToString(lastPub.h)
            /\ (lastPub.t = Num(235) /\ lastPub.h = Num(602)) =>
                  p = "{\"device_id\": \"esp32_sensor_01\",\"temperature\": 23.50,\"humidity\": 60.20}"
            /\ (lastPub.t = Num(-5) /\ lastPub.h = Num(0)) =>
                  p = "{\"device_id\": \"esp32_sensor_01\",\"temperature\": -0.50,\"humidity\": 0.00}"
            /\ (lastPub.t = Num(-105) /\ lastPub.h = Num(1000)) =>
                  p = "{\"device_id\": \"esp32_sensor_01\",\"temperature\": -10.50,\"humidity\": 100.00}"

\* the reading 23.5 / 60.2 published
C10_Witness ==
    lastPub.called /\ lastPub.t = Num(235) /\ lastPub.h = Num(602) /\ lastPub.ok

----------------------------------------------------------------------------
(* C11 *)

\* the session is down while the cycle is past its session check
C11_Lost == pc \in SamplePcs /\ ~brokerUp

\* the session check of a cycle has seen the session down
C11_Detected == pc = "reconnect_while" /\ ~lastConnected

\* reconnect() is about to attempt a handshake over an associated link
C11_HandshakePossible == pc = "connect" /\ wifiUp

\* a valid reading has been acquired
C11_ValidReading == pc = "validate" /\ ~h.nan /\ ~t.nan

----------------------------------------------------------------------------
(* C12 *)

\* what C12 asks of every state and every step
C12_Step ==
    /\ cnt["pump"] <= 1
    /\ (pc \in CheckPcs \/ pc \in ReconnectPcs) => cnt["pump"] = 0
    /\ pc = "pump" =>
          /\ cnt["pump"] = 0
          /\ lastConnected
          /\ cnt["readHumidity"] = 0 /\ cnt["readTemperature"] = 0
    /\ pc \in (SamplePcs \ {"pump"}) => cnt["pump"] = 1
    /\ (cnt["readHumidity"] > 0 \/ cnt["readTemperature"] > 0) => cnt["pump"] = 1
    /\ cnt'["pump"] > cnt["pump"] =>
          /\ pc = "pump" /\ pc' = "read_h"
          /\ delays' = delays
          /\ cnt'["connect"] = cnt["connect"]
    /\ (ProgramStep /\ pc \in {"backoff", "cooldown", "cadence", "connect"}) =>
          cnt'["pump"] = cnt["pump"]

\* C12: client.loop() is called exactly once in every cycle, also in a cycle
\* that ends on an invalid reading: after the session check and before the
\* sensor is read, never while reconnect() retries and never from the 2 s and
\* 30 s waits.
C12_PumpOncePerCycle == [][C12_Step]_vars

\* the end of a cycle that retried the handshake and ended on an invalid reading
C12_Witness ==
    /\ pc = "loop_return" /\ cnt["pump"] = 1
    /\ (h.nan \/ t.nan) /\ cnt["connectFail"] >= 1 /\ delays[COOLDOWN_MS] = 1

----------------------------------------------------------------------------
(* C13 *)

\* what C13 asks of every state and every step
C13_Step ==
    /\ cnt["publish"] <= 1
    /\ lastPub.called <=> cnt["publish"] = 1
    /\ lastPub.called => pc \in {"cadence", "loop_return"}
    /\ lastPub.ok => lastPub.connected
    /\ (ProgramStep /\ lastPub.called) =>
          /\ pc' \in {"loop_return", "loop_connected"}
          /\ cnt'["publish"] <= cnt["publish"]
          /\ cnt'["connect"] <= cnt["connect"]
          /\ cnt'["connected"] <= cnt["connected"]
          /\ brokerUp' = brokerUp /\ wifiUp' = wifiUp
    /\ (ProgramStep /\ pc = "publish") =>
          /\ pc' = "cadence"
          /\ cnt'["publish"] = 1 /\ lastPub'.called
          /\ brokerUp' = brokerUp /\ wifiUp' = wifiUp
          /\ cnt'["connect"] = cnt["connect"] /\ cnt'["connected"] = cnt["connected"]
    /\ (ProgramStep /\ cnt'["connected"] > cnt["connected"]) => ~lastPub.called

\* C13: a cycle makes at most one publish call; after the call, refused or
\* not, the cycle makes no further publish call, no handshake attempt, no
\* session check and no change of the session state: a refusal is seen at the
\* earliest by the session check of the next cycle.
C13_OnePublishNoRetry == [][C13_Step]_vars

\* the end of a cycle whose only publish call was made on a lost session
C13_Witness ==
    /\ pc = "loop_return" /\ lastPub.called /\ ~lastPub.ok /\ ~lastPub.connected
    /\ cnt["publish"] = 1 /\ ~brokerUp /\ cnt["connect"] = 0

----------------------------------------------------------------------------
(* C14 *)

\* C14: the program has no terminal state: in every reachable state (waiting
\* for the link, retrying the handshake, in a backoff, pumping, reading,
\* cooling down, publishing, sleeping) the thread of control has a next step,
\* and its position is always one of the statements of setup(), setup_wifi(),
\* reconnect() and loop(): no failure takes it anywhere else.
C14_NoTerminalState ==
    /\ ENABLED Program
    /\ pc \in SetupPcs \cup CheckPcs \cup ReconnectPcs \cup SamplePcs

\* a state past every kind of failure of one cycle: the handshake has failed as
\* often as is counted, over a link that is down, and the reading is invalid
C14_Witness ==
    /\ pc = "cooldown" /\ (h.nan \/ t.nan)
    /\ cnt["connectFail"] = Cap /\ cnt["connectNoLink"] >= 1 /\ ~brokerUp

----------------------------------------------------------------------------
(* C15 *)

\* nothing but the association wait has happened
C15_NothingYet ==
    /\ cnt = NoCalls
    /\ ~lastPub.called /\ ~pubPending
    /\ payload = ""
    /\ ~brokerUp
    /\ delays[BACKOFF_MS] = 0 /\ delays[COOLDOWN_MS] = 0 /\ delays[CADENCE_MS] = 0

\* what C15 asks of every state and every step
C15_Step ==
    /\ linkUps = 0 => (C15_NothingYet /\ pc \in SetupPcs \ {"set_server"})
    /\ pc \in SetupPcs => C15_NothingYet
    /\ (linkUps = 0 /\ ~wifiUp) => linkUps' = 0
    /\ (ProgramStep /\ linkUps = 0 /\ ~wifiUp) =>
          (pc' \in SetupPcs \ {"set_server"} /\ C15_NothingYet')
    /\ (\E o \in Ops : cnt'[o] > cnt[o]) => linkUps = 1

\* C15: no handshake attempt, pump call, sensor read or publish call is made
\* before the wait of setup_wifi() has seen the link associated; as long as the
\* link is not associated the program stays in that wait and makes none.
C15_NothingBeforeAssociation == [][C15_Step]_vars

\* the association still pending after as many polls as are counted
C15_Witness ==
    pc = "wifi_delay" /\ ~wifiUp /\ delays[POLL_MS] = Cap /\ linkUps = 0 /\ cnt = NoCalls

====
